---------------------------- MODULE Spec2Model ----------------------------
(* A model of vbatts/qcow2, src/qcow2.go: the qcow2 header dump.  main()    *)
(* opens every argument, reads the 72-byte v2 header, checks the magic,    *)
(* decodes the fields, reads the 32-byte v3 block when the version is 3,   *)
(* prints the header, reads q.HeaderLength more bytes and walks the header *)
(* extensions in them by re-slicing the buffer.                            *)
(*                                                                         *)
(* Go's int is taken as 64 bits wide (amd64/arm64): be32 never yields a    *)
(* negative int.  A 64-bit value is kept as its two 32-bit words           *)
(* [hi, lo], since TLC's integers are 32 bits wide; every byte that be32    *)
(* can see first in the inputs below is < 128 for that reason.             *)
(* fh.Read is the read of a regular file: it returns the bytes left, up to *)
(* len(buf), and io.EOF only when it is asked for bytes and none are left. *)
EXTENDS Integers, Sequences, FiniteSets

VARIABLES
    pc,        \* position of main() in its loop body
    argsLeft,  \* elements of flag.Args() not yet ranged over
    file,      \* contents of the file behind fh
    pos,       \* read offset of fh
    buf,       \* backing array of the slice buf
    off,       \* start of the slice buf in its backing array (len(buf) = Len(buf) - off)
    size,      \* the local size: bytes returned by the last fh.Read
    q,         \* the Header q, NoHeader before line 38 declares it
    nprinted,  \* headers written to stdout by line 71
    stderr,    \* the message written to stderr, "" when none
    exitCode,  \* -1 while running; 0 return of main, 1 os.Exit(1), 2 runtime panic
    hread      \* history: cursors at which a non-terminator record header was read

vars == <<pc, argsLeft, file, pos, buf, off, size, q, nprinted, stderr, exitCode, hread>>

-----------------------------------------------------------------------------
(* Bounds of the model *)

\* longest extension area, in 4-byte words, of the generated walk inputs
MaxWords == 7

\* most command-line arguments
MaxArgs == 2

-----------------------------------------------------------------------------
(* Program constants *)

Qcow2Magic == <<81, 70, 73, 251>>

Qcow2V2HeaderSize == 72

Qcow2V3HeaderSize == 104 - Qcow2V2HeaderSize

HdrExtEndOfArea == 0

\* HeaderLength of a v2 image, line 51
V2HeaderLength == 72

-----------------------------------------------------------------------------
(* Byte primitives *)

\* Go's b[lo:hi] on a sequence indexed from 1
Slice(b, lo, hi) == SubSeq(b, lo + 1, hi)

\* binary.BigEndian.Uint32 reads b[0..3], whatever the length of b
be32(b) == b[1] * 16777216 + b[2] * 65536 + b[3] * 256 + b[4]

\* binary.BigEndian.Uint64 as int64: the bit pattern, as two 32-bit words
be64(b) == [hi |-> be32(Slice(b, 0, 4)), lo |-> be32(Slice(b, 4, 8))]

Zeros(n) == [i \in 1..n |-> 0]

Min(a, b) == IF a < b THEN a ELSE b

\* fh.Read(p) with len(p) = n: the bytes delivered
ReadBytes(n) == Slice(file, Min(pos, Len(file)), Min(pos + n, Len(file)))

\* fh.Read(p) with len(p) = n: err != nil (io.EOF)
ReadEOF(n) == n > 0 /\ pos >= Len(file)

-----------------------------------------------------------------------------
(* The images the model is run on *)

\* a 32-bit value as 4 big-endian bytes
U32(n) == <<n \div 16777216, (n \div 65536) % 256, (n \div 256) % 256, n % 256>>

\* bytes [8:72] of a header: all zero, or a 1 GiB AES image with 64 KiB clusters
RestZero == Zeros(64)

RestSample ==
    Zeros(8) \o U32(0) \o U32(16) \o <<0, 0, 0, 0, 64, 0, 0, 0>> \o U32(1) \o U32(2)
        \o <<0, 0, 0, 0, 0, 3, 0, 0>> \o <<0, 0, 0, 0, 0, 1, 0, 0>> \o U32(1) \o U32(0)
        \o Zeros(8)

Magics == {Qcow2Magic, <<81, 70, 73, 0>>, <<80, 70, 73, 251>>}

Versions == {1, 2, 3, 4}

\* feature bitmasks: none, a bit of the low word, a bit of the high word
FeatLow == <<0, 0, 0, 0, 0, 0, 0, 1>>

FeatHigh == <<0, 0, 0, 1, 0, 0, 0, 0>>

HeaderLengths == {0, 8, 104}

\* the file cut to its first c bytes
Cut(f, c) == SubSeq(f, 1, Min(c, Len(f)))

Cuts == {0, 40, 72, 100, 1000}

\* images that vary the header: magic, version, fields, v3 block, length
HdrFiles ==
    { Cut(m \o U32(v) \o r \o inc \o comp \o auto \o U32(4) \o U32(hl) \o Zeros(hl), c) :
        m \in Magics, v \in Versions, r \in {RestZero, RestSample},
        inc \in {Zeros(8), FeatLow, FeatHigh}, comp \in {Zeros(8), FeatLow},
        auto \in {Zeros(8), FeatHigh}, hl \in HeaderLengths, c \in Cuts }

\* the words the generated extension areas are made of: a type or a size
Words == {U32(0), U32(5), U32(8)}

WordSeqs == UNION { [1..k -> Words] : k \in 0..MaxWords }

RECURSIVE Flatten(_)
Flatten(ws) == IF ws = <<>> THEN <<>> ELSE Head(ws) \o Flatten(Tail(ws))

\* the extension areas: whole words, or the last word cut in half
ExtAreas ==
    { SubSeq(Flatten(ws), 1, 4 * Len(ws) - t) : ws \in WordSeqs, t \in {0, 2} }
        \ {<<>>}

\* v3 images whose header_length is the length of the extension area that follows
WalkFiles ==
    { Qcow2Magic \o U32(3) \o RestSample \o FeatLow \o Zeros(8) \o Zeros(8)
        \o U32(4) \o U32(Len(e)) \o e : e \in ExtAreas }

\* v2 images with an extension area in front of the 72 bytes that follow the header
WalkFilesV2 ==
    { Qcow2Magic \o U32(2) \o RestSample \o e \o Zeros(V2HeaderLength - Len(e)) :
        e \in { x \in ExtAreas : Len(x) <= V2HeaderLength } }

Files == HdrFiles \cup WalkFiles \cup WalkFilesV2

-----------------------------------------------------------------------------
(* The header *)

NoHeader == [declared |-> FALSE]

\* lines 38-52: the composite literal
DecodeV2(b) ==
    [ Version               |-> be32(Slice(b, 4, 8)),
      BackingFileOffset     |-> be64(Slice(b, 8, 16)),
      BackingFileSize       |-> be32(Slice(b, 16, 20)),
      ClusterBits           |-> be32(Slice(b, 20, 24)),
      Size                  |-> be64(Slice(b, 24, 32)),
      CryptMethod           |-> be32(Slice(b, 32, 36)),
      L1Size                |-> be32(Slice(b, 36, 40)),
      L1TableOffset         |-> be64(Slice(b, 40, 48)),
      RefcountTableOffset   |-> be64(Slice(b, 48, 56)),
      RefcountTableClusters |-> be32(Slice(b, 56, 60)),
      NbSnapshots           |-> be32(Slice(b, 60, 64)),
      SnapshotsOffset       |-> be64(Slice(b, 64, 72)),
      IncompatibleFeatures  |-> 0,
      CompatibleFeatures    |-> 0,
      AutoclearFeatures     |-> 0,
      RefcountOrder         |-> 0,
      HeaderLength          |-> V2HeaderLength,
      ExtHeaders            |-> <<>> ]

\* lines 65-69: the v3 fields, from the buffer the v3 block was read into
DecodeV3(h, b) ==
    [h EXCEPT !.IncompatibleFeatures = be32(Slice(b, 0, 8)),
              !.CompatibleFeatures   = be32(Slice(b, 8, 16)),
              !.AutoclearFeatures    = be32(Slice(b, 16, 24)),
              !.RefcountOrder        = be32(Slice(b, 24, 28)),
              !.HeaderLength         = be32(Slice(b, 28, 32))]

\* a magic check that stops one byte short
MagicMatches_first3(b) == Slice(b, 0, 3) = Slice(Qcow2Magic, 0, 3)

\* line 33: bytes.Compare(buf[:4], Qcow2Magic) == 0
MagicMatches(b) == Slice(b, 0, 4) = Qcow2Magic

\* a version test that takes every version from 2 on as v3
IsV3_from2(h) == h.Version >= 2

\* line 54
IsV3(h) == h.Version = 3

\* a payload slice that takes the trailing bytes of the stride with it
ExtData_padded(o, s) == [lo |-> o + 8, hi |-> o + 8 + s + (s % 8)]

\* line 96: exthdr.Data = buf[8 : 8+exthdr.Size], a view of the backing array
ExtData(o, s) == [lo |-> o + 8, hi |-> o + 8 + s]

\* the bytes an ExtHeader's Data shows
DataBytes(e) == Slice(buf, e.Data.lo, e.Data.hi)

-----------------------------------------------------------------------------
(* main *)

Init ==
    /\ pc = "Range"
    /\ argsLeft \in 0..MaxArgs
    /\ file = <<>>
    /\ pos = 0
    /\ buf = <<>>
    /\ off = 0
    /\ size = 0
    /\ q = NoHeader
    /\ nprinted = 0
    /\ stderr = ""
    /\ exitCode = -1
    /\ hread = <<>>

\* os.Exit(1) after a message on stderr
Exit1(msg) ==
    /\ pc' = "Exit"
    /\ stderr' = msg
    /\ exitCode' = 1

\* a slice expression out of range: the runtime panics and the process dies
Panic ==
    /\ pc' = "Panic"
    /\ stderr' = "panic: slice bounds out of range"
    /\ exitCode' = 2

Continue(to) ==
    /\ pc' = to
    /\ UNCHANGED <<stderr, exitCode>>

\* line 14: the next argument
RangeNext ==
    /\ pc = "Range"
    /\ argsLeft > 0
    /\ argsLeft' = argsLeft - 1
    /\ pc' = "Open"
    /\ UNCHANGED <<file, pos, buf, off, size, q, nprinted, stderr, exitCode, hread>>

\* line 14: no argument left, main returns
RangeEnd ==
    /\ pc = "Range"
    /\ argsLeft = 0
    /\ pc' = "Return"
    /\ exitCode' = 0
    /\ UNCHANGED <<argsLeft, file, pos, buf, off, size, q, nprinted, stderr, hread>>

\* lines 15-20: os.Open succeeds
Open ==
    /\ pc = "Open"
    /\ \E f \in Files : file' = f
    /\ pos' = 0
    /\ Continue("ReadHeader")
    /\ UNCHANGED <<argsLeft, buf, off, size, q, nprinted, hread>>

\* lines 15-19: os.Open fails
OpenFails ==
    /\ pc = "Open"
    /\ Exit1("open")
    /\ UNCHANGED <<argsLeft, file, pos, buf, off, size, q, nprinted, hread>>

\* lines 22-31: read the v2 header
ReadHeader ==
    /\ pc = "ReadHeader"
    /\ LET got == ReadBytes(Qcow2V2HeaderSize) IN
        /\ buf' = got \o Zeros(Qcow2V2HeaderSize - Len(got))
        /\ off' = 0
        /\ size' = Len(got)
        /\ pos' = pos + Len(got)
        /\ IF ReadEOF(Qcow2V2HeaderSize) THEN Exit1("EOF")
           ELSE IF Len(got) < Qcow2V2HeaderSize THEN Exit1("short read")
           ELSE Continue("CheckMagic")
    /\ UNCHANGED <<argsLeft, file, q, nprinted, hread>>

\* lines 33-36
CheckMagic ==
    /\ pc = "CheckMagic"
    /\ IF ~MagicMatches(buf) THEN Exit1("Does not appear to be qcow file")
       ELSE Continue("Decode")
    /\ UNCHANGED <<argsLeft, file, pos, buf, off, size, q, nprinted, hread>>

\* lines 38-52
Decode ==
    /\ pc = "Decode"
    /\ q' = DecodeV2(buf)
    /\ Continue("V3")
    /\ UNCHANGED <<argsLeft, file, pos, buf, off, size, nprinted, hread>>

\* lines 54-70: the v3 block, read into buf[:32]
ReadV3 ==
    /\ pc = "V3"
    /\ IF IsV3(q)
       THEN LET got == ReadBytes(Qcow2V3HeaderSize)
                b   == got \o SubSeq(buf, Len(got) + 1, Len(buf))
            IN  /\ buf' = b
                /\ size' = Len(got)
                /\ pos' = pos + Len(got)
                /\ IF ReadEOF(Qcow2V3HeaderSize)
                   THEN Exit1("EOF") /\ q' = q
                   ELSE IF Len(got) < Qcow2V3HeaderSize
                   THEN Exit1("short read") /\ q' = q
                   ELSE Continue("Print") /\ q' = DecodeV3(q, b)
       ELSE Continue("Print") /\ UNCHANGED <<buf, size, pos, q>>
    /\ UNCHANGED <<argsLeft, file, off, nprinted, hread>>

\* lines 71-73: the header goes to stdout
PrintHeader ==
    /\ pc = "Print"
    /\ nprinted' = nprinted + 1
    /\ Continue("ReadExt")
    /\ UNCHANGED <<argsLeft, file, pos, buf, off, size, q, hread>>

\* lines 76-85: read q.HeaderLength bytes into a new buffer
ReadExt ==
    /\ pc = "ReadExt"
    /\ LET got == ReadBytes(q.HeaderLength) IN
        /\ buf' = got \o Zeros(q.HeaderLength - Len(got))
        /\ off' = 0
        /\ size' = Len(got)
        /\ pos' = pos + Len(got)
        /\ IF ReadEOF(q.HeaderLength) THEN Exit1("EOF")
           ELSE IF Len(got) < q.HeaderLength THEN Exit1("short read")
           ELSE Continue("Walk")
    /\ UNCHANGED <<argsLeft, file, q, nprinted, hread>>

\* lines 86-101: one iteration of the extension loop
WalkStep ==
    /\ pc = "Walk"
    /\ LET n     == Len(buf) - off
           t     == be32(Slice(buf, off, off + 4))
           s     == be32(Slice(buf, off + 4, off + 8))
           round == s % 8
           ext   == [Type |-> t, Size |-> s, Data |-> ExtData(off, s)]
       IN  IF n < 4
           THEN Panic /\ UNCHANGED <<q, off, hread>>                     \* line 87
           ELSE IF t = HdrExtEndOfArea
           THEN Continue("WalkDone") /\ UNCHANGED <<q, off, hread>>      \* line 89
           ELSE IF n < 8
           THEN Panic /\ UNCHANGED <<q, off, hread>>                     \* line 93
           ELSE IF 8 + s > n
           THEN Panic /\ hread' = Append(hread, off)                     \* line 96
                      /\ UNCHANGED <<q, off>>
           ELSE /\ hread' = Append(hread, off)
                /\ q' = [q EXCEPT !.ExtHeaders = Append(@, ext)]         \* line 97
                /\ IF 8 + s + round > n
                   THEN Panic /\ off' = off                              \* line 100
                   ELSE Continue("Walk") /\ off' = off + 8 + s + round
    /\ UNCHANGED <<argsLeft, file, pos, buf, size, nprinted>>

\* line 103: the loop body ends and its locals go out of scope
EndBody ==
    /\ pc = "WalkDone"
    /\ pc' = "Range"
    /\ file' = <<>>
    /\ pos' = 0
    /\ buf' = <<>>
    /\ off' = 0
    /\ size' = 0
    /\ q' = NoHeader
    /\ hread' = <<>>
    /\ UNCHANGED <<argsLeft, nprinted, stderr, exitCode>>

Next ==
    \/ RangeNext
    \/ RangeEnd
    \/ Open
    \/ OpenFails
    \/ ReadHeader
    \/ CheckMagic
    \/ Decode
    \/ ReadV3
    \/ PrintHeader
    \/ ReadExt
    \/ WalkStep
    \/ EndBody

Spec == Init /\ [][Next]_vars

-----------------------------------------------------------------------------
(* Vocabulary of the claims *)

\* bytes of the extension buffer from the cursor on
Remaining == Len(buf) - off

\* type and declared size of the record header at the cursor
TypeAtCursor == be32(Slice(buf, off, off + 4))

SizeAtCursor == be32(Slice(buf, off + 4, off + 8))

\* an int that holds a 32-bit unsigned value, as the two words of its 64 bits
IntAs64(n) == [hi |-> 0, lo |-> n]

\* the image has the 72 bytes of a v2 header and the magic in front
ValidMagic == Len(file) >= Qcow2V2HeaderSize /\ Slice(file, 0, 4) = Qcow2Magic

VersionField == be32(Slice(file, 4, 8))

\* main is past the header decoder for the current image
Decoded == q # NoHeader

-----------------------------------------------------------------------------
(* C1: in the extension walk every non-terminator record with declared size *)
(* s moves the cursor by 8 + s + ((8 - s mod 8) mod 8), so the next record  *)
(* header is read at a multiple of 8 from the start of the extension area.  *)
C1_StridePadsToEight ==
    [][(pc = "Walk" /\ pc' = "Walk") =>
         /\ off' = off + 8 + SizeAtCursor + ((8 - (SizeAtCursor % 8)) % 8)
         /\ off' % 8 = 0]_vars

(* C2: for a version 3 image the three feature masks are the full 64-bit   *)
(* big-endian values of file bytes [72:80], [80:88], [88:96], refcountOrder *)
(* is the 32-bit value of [96:100] and headerLength that of [100:104].     *)
C2_V3FieldsFullWidth ==
    (pc \in {"Print", "ReadExt"} /\ ValidMagic /\ VersionField = 3) =>
        /\ IntAs64(q.IncompatibleFeatures) = be64(Slice(file, 72, 80))
        /\ IntAs64(q.CompatibleFeatures) = be64(Slice(file, 80, 88))
        /\ IntAs64(q.AutoclearFeatures) = be64(Slice(file, 88, 96))
        /\ q.RefcountOrder = be32(Slice(file, 96, 100))
        /\ q.HeaderLength = be32(Slice(file, 100, 104))

(* C3: a non-terminator record whose declared size exceeds the bytes left  *)
(* after its 8-byte header ends the walk Failed with TruncatedExtension,   *)
(* never with a panic.                                                     *)
C3_TruncatedExtensionFails ==
    [][(pc = "Walk" /\ Remaining >= 8 /\ TypeAtCursor # HdrExtEndOfArea
            /\ SizeAtCursor > Remaining - 8) =>
         (pc' = "Exit" /\ stderr' = "TruncatedExtension" /\ exitCode' = 1)]_vars

(* C4: when fewer than 8 bytes are left for a record header and no type-0  *)
(* record has been read, the walk ends Failed with MissingTerminator; this *)
(* includes an extension buffer of length 0.                               *)
C4_MissingTerminatorFails ==
    [][(pc = "Walk" /\ Remaining < 8) =>
         (pc' = "Exit" /\ stderr' = "MissingTerminator" /\ exitCode' = 1)]_vars

(* C5: an image with a valid magic whose version is neither 2 nor 3 fails  *)
(* with UnsupportedVersion: no header is produced, no walk is started.     *)
C5_UnsupportedVersionFails ==
    (ValidMagic /\ VersionField \notin {2, 3}
        /\ pc \notin {"Open", "ReadHeader", "CheckMagic", "Decode"}) =>
        (pc = "Exit" /\ stderr = "UnsupportedVersion" /\ q = NoHeader)

(* C6: a header is handed to the presentation layer (printed) only once    *)
(* the extension walk of its image has reached Done, so no image on which  *)
(* a later decode step fails has its header presented.                     *)
C6_PresentedOnlyAfterDone ==
    [][nprinted' # nprinted => pc = "WalkDone"]_vars

(* C7: when the walk reaches Done the extension list holds one record per  *)
(* non-terminator record header read, in the order read, each with its     *)
(* type, its declared size and the size bytes that follow its 8-byte       *)
(* header; the terminator is never appended, and a buffer whose first      *)
(* record has type 0 gives the empty list without failing.                 *)
C7_DoneListMatchesRecords ==
    /\ pc = "WalkDone" =>
        /\ Len(q.ExtHeaders) = Len(hread)
        /\ \A i \in 1..Len(hread) :
            LET h == hread[i]
                e == q.ExtHeaders[i]
            IN  /\ e.Type = be32(Slice(buf, h, h + 4))
                /\ e.Type # HdrExtEndOfArea
                /\ e.Size = be32(Slice(buf, h + 4, h + 8))
                /\ Len(DataBytes(e)) = e.Size
                /\ DataBytes(e) = Slice(buf, h + 8, h + 8 + e.Size)
        /\ \A i \in 1..Len(hread), j \in 1..Len(hread) : i < j => hread[i] < hread[j]
    /\ (pc \in {"WalkDone", "Panic"} /\ Len(buf) >= 4
            /\ be32(Slice(buf, 0, 4)) = HdrExtEndOfArea) =>
        (pc = "WalkDone" /\ q.ExtHeaders = <<>>)

\* Done after two records, the second with a payload
C7_Witness ==
    /\ pc = "WalkDone"
    /\ Len(q.ExtHeaders) = 2
    /\ q.ExtHeaders[1].Size = 0
    /\ q.ExtHeaders[2].Size = 8
    /\ DataBytes(q.ExtHeaders[2]) = U32(5) \o U32(8)

(* C8: for an image with a valid magic and version 2 the header has        *)
(* version 2, headerLength 72 and zero v3 fields, whatever follows offset  *)
(* 72, and exactly 72 bytes are consumed before the extension area is read. *)
C8_V2Header ==
    (ValidMagic /\ VersionField = 2 /\ Decoded) =>
        /\ q.Version = 2
        /\ q.HeaderLength = 72
        /\ q.IncompatibleFeatures = 0
        /\ q.CompatibleFeatures = 0
        /\ q.AutoclearFeatures = 0
        /\ q.RefcountOrder = 0
        /\ pc \in {"V3", "Print", "ReadExt"} => pos = 72

\* a v2 image with non-zero bytes after offset 72, about to read its extension area
C8_Witness ==
    /\ pc = "ReadExt"
    /\ ValidMagic
    /\ VersionField = 2
    /\ Len(file) >= 104
    /\ Slice(file, 72, 80) = FeatHigh
    /\ Slice(file, 96, 100) = U32(4)

(* C9: an image of at least 72 bytes whose first 4 bytes are not the magic *)
(* fails with the bad-magic error whatever the later bytes are; no header  *)
(* field is extracted and no further byte is read.                         *)
C9_BadMagicFails ==
    (Len(file) >= Qcow2V2HeaderSize /\ Slice(file, 0, 4) # Qcow2Magic
        /\ pc \notin {"Open", "ReadHeader", "CheckMagic"}) =>
        /\ pc = "Exit"
        /\ stderr = "Does not appear to be qcow file"
        /\ exitCode = 1
        /\ q = NoHeader
        /\ pos = Qcow2V2HeaderSize

\* a version 3 image, whole, whose magic differs in its last byte only
C9_Witness ==
    /\ pc = "Exit"
    /\ Len(file) > 104
    /\ Slice(file, 0, 4) = <<81, 70, 73, 0>>
    /\ VersionField = 3
    /\ Slice(file, 8, 72) = RestSample

(* C10: the walk ends in Done or Failed: every step of it either reads a   *)
(* further record, moving the cursor on by at least 8 bytes, or ends the   *)
(* walk in Done or in Failed.                                              *)
C10_WalkEndsDoneOrFailed ==
    [][pc = "Walk" =>
         \/ pc' = "Walk" /\ off' >= off + 8
         \/ pc' = "WalkDone"
         \/ pc' = "Exit" /\ exitCode' = 1]_vars

=============================================================================
